---- MODULE Spec2Model ----
(***************************************************************************)
(* Model of fission's canary configuration manager                         *)
(* (canaryconfigmgr/canaryConfigMgr.go) and of its request tracker:        *)
(*   - the informer event handlers AddFunc / DeleteFunc / UpdateFunc,      *)
(*   - the per-configuration goroutine addCanaryConfig (ticker + quit),    *)
(*   - processCanaryConfig, one step per call that can interleave with     *)
(*     other goroutines (tracker get, field reads, trigger Get, Update),   *)
(*   - RequestTracker.set / get under its mutex, and reset as the loop     *)
(*     calls it,                                                           *)
(*   - GetFunctionFailurePercentage of prometheusClient.go.                *)
(* Functions the package calls but does not define (reset,                 *)
(* calculatePercentageFailure, rollback) follow the written specification  *)
(* of the package.  set never stores the counter it creates, so a trigger  *)
(* gets its entry in Counter from reset alone; ResetCall lets a caller of  *)
(* the tracker make that entry, and only then do ticks find data.          *)
(***************************************************************************)
EXTENDS Integers, FiniteSets, Sequences, TLC

\* ------------------------------------------------------------ bounds
\* goroutines started by AddFunc that the model follows
MaxLoops == 2
\* requests recorded per observation window
MaxRequests == 2

\* ------------------------------------------------------------ data
Triggers == {"t1"}
Functions == {"f1", "f2", "f3"}

\* crd.CanaryConfig objects delivered by the informer (Spec fields)
Config1 ==
    [name |-> "c1", Trigger |-> "t1", FunctionN |-> "f2", FunctionNminus1 |-> "f1",
     WeightIncrement |-> 50, FailureThreshold |-> 60]
Config2 ==
    [name |-> "c2", Trigger |-> "t1", FunctionN |-> "f3", FunctionNminus1 |-> "f1",
     WeightIncrement |-> 0, FailureThreshold |-> 50]
CanaryConfigs == {Config1, Config2}
NoConfig == [name |-> "none"]

\* t.Spec.FunctionReference.FunctionWeights values a trigger is created or
\* edited with: every one sums to 100
WeightsFresh == [f \in {"f1", "f2"} |-> IF f = "f1" THEN 100 ELSE 0]
WeightsShared ==
    [f \in Functions |-> IF f = "f1" THEN 20 ELSE IF f = "f2" THEN 60 ELSE 20]
WeightStates == {WeightsFresh, WeightsShared}

Loops == 1..MaxLoops

\* nil *RequestCounter
NoCounter == [nil |-> TRUE]
\* &RequestCounter{}
ZeroCounter == [TotalRequests |-> 0, FailedRequests |-> 0]
\* no trigger object held by the tick
NoTrigger == [nil |-> TRUE]

VARIABLES
    Counter,     \* RequestTracker.Counter : trigger -> *RequestCounter
    recorded,    \* per trigger, the set() calls made since the last reset
    triggers,    \* the HTTPTrigger objects in the API server: FunctionWeights
    store,       \* canaryConfigStore: names of the configurations present
    loop,        \* the addCanaryConfig goroutines
    mutex,       \* RequestTracker.mutex: "free", or the trigger whose set() holds it
    outcome,     \* what the step just taken returned from processCanaryConfig with
    panicked     \* the process died of a runtime panic

vars == <<Counter, recorded, mutex, triggers, store, loop, outcome, panicked>>

\* ------------------------------------------------------------ helpers
SumWeights(w) ==
    LET RECURSIVE Sum(_)
        Sum(S) == IF S = {} THEN 0
                  ELSE LET f == CHOOSE x \in S : TRUE IN w[f] + Sum(S \ {f})
    IN Sum(DOMAIN w)

\* Go map read: the zero value for a missing key
Weight(w, f) == IF f \in DOMAIN w THEN w[f] ELSE 0

\* Go map write m[f] = v
MapSet(w, f, v) == [g \in DOMAIN w \cup {f} |-> IF g = f THEN v ELSE w[g]]

\* the step just taken was not a return from processCanaryConfig
NoOutcome == [l |-> 0, o |-> "None"]

IdleLoop ==
    [cfg |-> NoConfig, pc |-> "idle", requestCounter |-> "nil", t |-> NoTrigger,
     stale |-> FALSE, tickerStopped |-> FALSE,
     quit |-> "open", state |-> "Running", orphan |-> FALSE]

Init ==
    /\ Counter = [tr \in Triggers |-> NoCounter]
    /\ recorded = [tr \in Triggers |-> ZeroCounter]
    /\ mutex = "free"
    /\ triggers \in [Triggers -> WeightStates]
    /\ store = {}
    /\ loop = [l \in Loops |-> IdleLoop]
    /\ outcome = NoOutcome
    /\ panicked = FALSE

\* ------------------------------------------------------------ RequestTracker
\* RequestTracker.get: the pointer stored for the trigger, nil when absent
get(tr) == Counter[tr]

\* RequestTracker.set: the counter is looked up; when the trigger has no entry
\* a fresh RequestCounter is incremented, and it is never stored in the map
set(C, tr, failedReq) ==
    IF C[tr] = NoCounter
    THEN C
    ELSE [C EXCEPT ![tr] =
            [TotalRequests |-> @.TotalRequests + 1,
             FailedRequests |-> IF failedReq THEN @.FailedRequests + 1
                                ELSE @.FailedRequests]]

\* RequestTracker.reset: both counters of the trigger are zero afterwards
reset(C, tr) == [C EXCEPT ![tr] = ZeroCounter]

\* failed / total * 100 on the counter's fields (no data reads as 0)
calculatePercentageFailure(rc) ==
    IF rc.TotalRequests = 0 THEN 0
    ELSE (rc.FailedRequests * 100) \div rc.TotalRequests

\* a request-handling path records the outcome of one request
SetCall(tr, failedReq) ==
    /\ ~panicked
    /\ mutex = "free"
    /\ recorded[tr].TotalRequests < MaxRequests
    /\ Counter' = set(Counter, tr, failedReq)
    /\ recorded' = [recorded EXCEPT ![tr] =
            [TotalRequests |-> @.TotalRequests + 1,
             FailedRequests |-> IF failedReq THEN @.FailedRequests + 1
                                ELSE @.FailedRequests]]
    /\ outcome' = NoOutcome
    /\ UNCHANGED <<triggers, store, loop, panicked, mutex>>

\* a caller of the tracker other than a rollout loop resets a trigger's window
ResetCall(tr) ==
    /\ ~panicked
    /\ mutex = "free"
    /\ Counter[tr] # ZeroCounter
    /\ Counter' = reset(Counter, tr)
    /\ recorded' = [recorded EXCEPT ![tr] = ZeroCounter]
    /\ outcome' = NoOutcome
    /\ UNCHANGED <<triggers, store, loop, panicked, mutex>>

\* set, lines 33-42: the mutex is taken, the counter looked up and, for a
\* failed request, FailedRequests incremented
setFailed(C, tr, failedReq) ==
    IF C[tr] = NoCounter \/ ~failedReq
    THEN C
    ELSE [C EXCEPT ![tr].FailedRequests = @ + 1]

\* set, lines 43-44: TotalRequests is incremented and the mutex released
setTotal(C, tr) ==
    IF C[tr] = NoCounter
    THEN C
    ELSE [C EXCEPT ![tr].TotalRequests = @ + 1]

\* a request-handling path enters set and makes its first write
SetBegin(tr, failedReq) ==
    /\ ~panicked
    /\ mutex = "free"
    /\ recorded[tr].TotalRequests < MaxRequests
    /\ mutex' = tr
    /\ Counter' = setFailed(Counter, tr, failedReq)
    /\ recorded' = [recorded EXCEPT ![tr].FailedRequests =
            IF failedReq THEN @ + 1 ELSE @]
    /\ outcome' = NoOutcome
    /\ UNCHANGED <<triggers, store, loop, panicked>>

\* the set in progress makes its second write and returns
SetEnd(tr) ==
    /\ ~panicked
    /\ mutex = tr
    /\ mutex' = "free"
    /\ Counter' = setTotal(Counter, tr)
    /\ recorded' = [recorded EXCEPT ![tr].TotalRequests = @ + 1]
    /\ outcome' = NoOutcome
    /\ UNCHANGED <<triggers, store, loop, panicked>>

\* ------------------------------------------------------------ trigger API
\* a write that changes trigger tr gives it a new resourceVersion: every loop
\* holding a copy read before the write now holds an old one
Staled(lp, tr, changed) ==
    [l \in Loops |->
        IF changed /\ lp[l].t # NoTrigger /\ lp[l].cfg.Trigger = tr
        THEN [lp[l] EXCEPT !.stale = TRUE]
        ELSE lp[l]]

\* another writer (an operator, another controller) replaces the weights
OperatorEdit(tr, w) ==
    /\ ~panicked
    /\ triggers[tr] # w
    /\ triggers' = [triggers EXCEPT ![tr] = w]
    /\ loop' = Staled(loop, tr, TRUE)
    /\ outcome' = NoOutcome
    /\ UNCHANGED <<Counter, recorded, store, panicked, mutex>>

\* ------------------------------------------------------------ controller
FreeLoops == {l \in Loops : loop[l].pc = "idle"}

\* AddFunc: go addCanaryConfig(canaryConfig); the goroutine makes its own
\* ticker and its own quit channel
AddFunc(c) ==
    /\ ~panicked
    /\ FreeLoops # {}
    /\ LET l == CHOOSE x \in FreeLoops : \A y \in FreeLoops : x <= y
       IN loop' = [loop EXCEPT ![l] = [IdleLoop EXCEPT !.cfg = c, !.pc = "select"]]
    /\ store' = store \cup {c.name}
    /\ outcome' = NoOutcome
    /\ UNCHANGED <<Counter, recorded, triggers, panicked, mutex>>

\* a deleteCanaryConfig that closes the quit channel of every running loop,
\* whatever its configuration
deleteCanaryConfigAll(lp, c) ==
    [l \in Loops |->
        IF lp[l].pc \notin {"idle", "done"} THEN [lp[l] EXCEPT !.quit = "closed"]
        ELSE lp[l]]

\* deleteCanaryConfig: quit is a local of the addCanaryConfig goroutine and the
\* manager keeps no handle on it, so the goroutines of the deleted
\* configuration are left as they are
deleteCanaryConfig(lp, c) == lp

\* DeleteFunc: go deleteCanaryConfig(canaryConfig)
DeleteFunc(c) ==
    /\ ~panicked
    /\ c.name \in store
    /\ store' = store \ {c.name}
    /\ loop' = deleteCanaryConfig(loop, c)
    /\ outcome' = NoOutcome
    /\ UNCHANGED <<Counter, recorded, triggers, panicked, mutex>>

\* DeleteFunc for a configuration that is not in the store: the Deleted event
\* delivered again, or one for an identity that was never added
DeleteFuncAgain(c) ==
    /\ ~panicked
    /\ c.name \notin store
    /\ loop' = deleteCanaryConfig(loop, c)
    /\ outcome' = [l |-> 0, o |-> "Deleted"]
    /\ UNCHANGED <<Counter, recorded, mutex, triggers, store, panicked>>

\* ------------------------------------------------------------ addCanaryConfig
\* case <-ticker.C: the ticker has delivered a tick (it may do so at any time
\* until ticker.Stop, also while quit is closed) and the select takes it;
\* processCanaryConfig starts with requestTracker.get
\* (orphan: the tick starts with the configuration gone from the store)
SelectTick(l) ==
    /\ ~panicked
    /\ loop[l].pc = "select"
    /\ ~loop[l].tickerStopped
    /\ mutex = "free"
    /\ loop' = [loop EXCEPT ![l] =
            [@ EXCEPT !.requestCounter =
                          IF get(loop[l].cfg.Trigger) = NoCounter THEN "nil" ELSE "ptr",
                      !.orphan = (loop[l].cfg.name \notin store),
                      !.pc = "check"]]
    /\ outcome' = NoOutcome
    /\ UNCHANGED <<Counter, recorded, triggers, store, panicked, mutex>>

\* case <-quit: ticker.Stop(); return
SelectQuit(l) ==
    /\ ~panicked
    /\ loop[l].pc = "select"
    /\ loop[l].quit = "closed"
    /\ loop' = [loop EXCEPT ![l] = [@ EXCEPT !.tickerStopped = TRUE, !.pc = "done"]]
    /\ outcome' = NoOutcome
    /\ UNCHANGED <<Counter, recorded, triggers, store, panicked, mutex>>

\* ------------------------------------------------------------ processCanaryConfig
\* return from processCanaryConfig: the tick's locals are gone
Return(p) ==
    [p EXCEPT !.pc = "select", !.requestCounter = "nil", !.t = NoTrigger,
              !.stale = FALSE, !.orphan = FALSE]

\* close(quit) by the goroutine itself, which records why it stops
Closed(p, state) == [p EXCEPT !.quit = "closed", !.state = state]

\* the check with the zero-total test left out
NoDataNilOnly(ptr, tr) == ptr = "nil"

\* requestCounter == nil || requestCounter.TotalRequests == 0
NoData(ptr, tr) == ptr = "nil" \/ Counter[tr].TotalRequests = 0

\* failurePercent > canaryConfig.Spec.FailureThreshold
OverThreshold(failurePercent, c) == failurePercent > c.FailureThreshold

\* functionWeights[FunctionN] += WeightIncrement;
\* functionWeights[FunctionNminus1] -= WeightIncrement
IncrementWeights(w, c) ==
    LET w1 == MapSet(w, c.FunctionN, Weight(w, c.FunctionN) + c.WeightIncrement)
    IN MapSet(w1, c.FunctionNminus1, Weight(w1, c.FunctionNminus1) - c.WeightIncrement)

\* rollback: the candidate gets no traffic, the incumbent all of it
rollback(w, c) == MapSet(MapSet(w, c.FunctionN, 0), c.FunctionNminus1, 100)

\* functionWeights[FunctionN] >= 100
ReachedFull(w, c) == Weight(w, c.FunctionN) >= 100

\* a no-data return that resets the tracker's window
NoDataReturnResets(l) ==
    /\ loop' = [loop EXCEPT ![l] = Return(@)]
    /\ outcome' = [l |-> l, o |-> "NoData"]
    /\ Counter' = reset(Counter, loop[l].cfg.Trigger)
    /\ UNCHANGED <<recorded, triggers, store, panicked, mutex>>

\* the nothing-to-do-yet return of a tick without data
NoDataReturn(l) ==
    /\ loop' = [loop EXCEPT ![l] = Return(@)]
    /\ outcome' = [l |-> l, o |-> "NoData"]
    /\ UNCHANGED <<Counter, recorded, triggers, store, panicked, mutex>>

\* lines 115-121: the nil / zero check on the counter the tracker returned
Check(l) ==
    /\ ~panicked
    /\ loop[l].pc = "check"
    /\ IF NoData(loop[l].requestCounter, loop[l].cfg.Trigger)
       THEN NoDataReturn(l)
       ELSE /\ loop' = [loop EXCEPT ![l].pc = "calc"]
            /\ outcome' = NoOutcome
            /\ UNCHANGED <<Counter, recorded, triggers, store, panicked, mutex>>

\* lines 124-131: the failure percentage against the threshold; over it,
\* rollback(), close(quit), return (closing a closed channel panics)
Calc(l) ==
    LET c == loop[l].cfg
        tr == c.Trigger
        failurePercent == calculatePercentageFailure(Counter[tr])
        rolled == rollback(triggers[tr], c)
    IN
    /\ ~panicked
    /\ loop[l].pc = "calc"
    /\ IF OverThreshold(failurePercent, c)
       THEN /\ triggers' = [triggers EXCEPT ![tr] = rolled]
            /\ loop' = [Staled(loop, tr, rolled # triggers[tr]) EXCEPT ![l] =
                    Return(Closed(loop[l], "RolledBack"))]
            /\ outcome' = [l |-> l, o |-> "RollbackTriggered"]
            /\ panicked' = (loop[l].quit = "closed")
       ELSE /\ loop' = [loop EXCEPT ![l].pc = "trigget"]
            /\ outcome' = NoOutcome
            /\ UNCHANGED <<triggers, panicked>>
    /\ UNCHANGED <<Counter, recorded, store, mutex>>

\* errors of the trigger API that are not a Conflict
ApiErrors == {"NotFound", "Error"}

\* lines 135-140: any error of Get, NotFound included, ends the tick and
\* nothing else
GetFailed(p, err) == Return(p)

\* lines 134-140: HTTPTriggers(ns).Get(name); on an error the tick returns
TriggerGet(l) ==
    /\ ~panicked
    /\ loop[l].pc = "trigget"
    /\ \E err \in ApiErrors \cup {"nil"} :
        IF err # "nil"
        THEN /\ loop' = [loop EXCEPT ![l] = GetFailed(@, err)]
             /\ outcome' = [l |-> l, o |-> "Get" \o err]
        ELSE /\ loop' = [loop EXCEPT ![l] =
                    [@ EXCEPT !.t = triggers[loop[l].cfg.Trigger], !.stale = FALSE,
                              !.pc = "update"]]
             /\ outcome' = NoOutcome
    /\ UNCHANGED <<Counter, recorded, triggers, store, panicked, mutex>>

\* a failed Update that resets the tracker as a successful one does
UpdateFailedResets(l, why) ==
    /\ loop' = [loop EXCEPT ![l] = Return(@)]
    /\ outcome' = [l |-> l, o |-> why]
    /\ Counter' = reset(Counter, loop[l].cfg.Trigger)
    /\ UNCHANGED <<recorded, triggers, store, panicked, mutex>>

\* lines 150-153, Update refused: the tick returns and its object is dropped
UpdateFailed(l, why) ==
    /\ loop' = [loop EXCEPT ![l] = Return(@)]
    /\ outcome' = [l |-> l, o |-> why]
    /\ UNCHANGED <<Counter, recorded, triggers, store, panicked, mutex>>

\* lines 149-161 when the write goes through: the tracker is reset, and at
\* 100 or more for FunctionN the goroutine closes its quit channel
UpdateSuccess(l) ==
    LET c == loop[l].cfg
        tr == c.Trigger
        functionWeights == IncrementWeights(loop[l].t, c)
        full == ReachedFull(functionWeights, c)
    IN
    /\ mutex = "free"
    /\ triggers' = [triggers EXCEPT ![tr] = functionWeights]
    /\ Counter' = reset(Counter, tr)
    /\ recorded' = [recorded EXCEPT ![tr] = ZeroCounter]
    /\ loop' = [Staled(loop, tr, functionWeights # triggers[tr]) EXCEPT ![l] =
            IF full THEN Return(Closed(loop[l], "Completed")) ELSE Return(loop[l])]
    /\ outcome' = [l |-> l, o |-> IF full THEN "Completed" ELSE "Incremented"]
    /\ panicked' = (full /\ loop[l].quit = "closed")
    /\ UNCHANGED <<store, mutex>>

\* an Update that is never refused for an object changed since it was read
TriggerUpdateBlind(l) ==
    /\ ~panicked
    /\ loop[l].pc = "update"
    /\ \/ UpdateSuccess(l)
       \/ \E err \in ApiErrors : UpdateFailed(l, "Update" \o err)

\* lines 142-161: the weights are changed on the object read by this tick and
\* written with Update, which the API server refuses when the object changed
\* since it was read, and which can fail for any other reason
TriggerUpdate(l) ==
    /\ ~panicked
    /\ loop[l].pc = "update"
    /\ \/ /\ loop[l].stale
          /\ UpdateFailed(l, "UpdateConflict")
       \/ /\ ~loop[l].stale
          /\ UpdateSuccess(l)
       \/ \E err \in ApiErrors : UpdateFailed(l, "Update" \o err)

\* ------------------------------------------------------------ specification
Next ==
    \/ \E tr \in Triggers, failedReq \in BOOLEAN : SetCall(tr, failedReq)
    \/ \E tr \in Triggers : ResetCall(tr)
    \/ \E tr \in Triggers, w \in WeightStates : OperatorEdit(tr, w)
    \/ \E c \in CanaryConfigs : AddFunc(c)
    \/ \E c \in CanaryConfigs : DeleteFunc(c)
    \/ \E l \in Loops : SelectTick(l)
    \/ \E l \in Loops : SelectQuit(l)
    \/ \E l \in Loops : Check(l)
    \/ \E l \in Loops : Calc(l)
    \/ \E l \in Loops : TriggerGet(l)
    \/ \E l \in Loops : TriggerUpdate(l)

Spec == Init /\ [][Next]_vars

\* the informer delivers the Added event of each configuration once
AddOnce(c) ==
    /\ \A l \in Loops : loop[l].cfg.name # c.name
    /\ AddFunc(c)

NextOnce ==
    \/ \E tr \in Triggers, failedReq \in BOOLEAN : SetCall(tr, failedReq)
    \/ \E tr \in Triggers : ResetCall(tr)
    \/ \E tr \in Triggers, w \in WeightStates : OperatorEdit(tr, w)
    \/ \E c \in CanaryConfigs : AddOnce(c)
    \/ \E c \in CanaryConfigs : DeleteFunc(c)
    \/ \E l \in Loops : SelectTick(l)
    \/ \E l \in Loops : SelectQuit(l)
    \/ \E l \in Loops : Check(l)
    \/ \E l \in Loops : Calc(l)
    \/ \E l \in Loops : TriggerGet(l)
    \/ \E l \in Loops : TriggerUpdate(l)

SpecOnce == Init /\ [][NextOnce]_vars

\* ------------------------------------------------------------ properties
TriggerOf(l) == loop[l].cfg.Trigger
Active(l) == loop[l].pc \notin {"idle", "done"}
\* the step just taken was a return of loop l's tick that wrote the trigger
\* with incremented weights
Wrote(l) == outcome'.l = l /\ outcome'.o \in {"Incremented", "Completed"}
ValidWeights(w) == (\A f \in DOMAIN w : w[f] \in 0..100) /\ SumWeights(w) = 100
Min(a, b) == IF a < b THEN a ELSE b
Max(a, b) == IF a > b THEN a ELSE b

\* C1: get returns, for every trigger, as many total and failed requests as
\* set was called with since the last reset, also after the first set for a
\* trigger that has no counter yet; (0,0) right after a reset.
C1_SnapshotCountsRecords ==
    \A tr \in Triggers :
        IF get(tr) = NoCounter
        THEN recorded[tr] = ZeroCounter
        ELSE get(tr) = recorded[tr]

\* C2: a tick whose failure percentage is at or above FailureThreshold (equal
\* to it included) ends in a rollback, never in a weight increment.
C2_RollbackAtThreshold ==
    [][\A l \in Loops :
        ( /\ loop[l].pc = "calc"
          /\ loop'[l].pc # "calc"
          /\ calculatePercentageFailure(Counter[TriggerOf(l)])
                >= loop[l].cfg.FailureThreshold )
        => outcome' = [l |-> l, o |-> "RollbackTriggered"]]_vars

\* C3: once a loop has rolled back, no tick of it increments the weights
\* again.
C3_NoIncrementAfterRollback ==
    [][\A l \in Loops : loop[l].state = "RolledBack" => ~Wrote(l)]_vars

\* C4: an increment tick that starts from weights in [0,100] summing to 100
\* writes weights for FunctionN and FunctionNminus1 in [0,100], and the
\* weights of the trigger still sum to 100.
C4_WrittenWeightsInRange ==
    [][\A l \in Loops :
        (Wrote(l) /\ ValidWeights(triggers[TriggerOf(l)]))
        => LET w == triggers'[TriggerOf(l)] IN
           /\ Weight(w, loop[l].cfg.FunctionN) \in 0..100
           /\ Weight(w, loop[l].cfg.FunctionNminus1) \in 0..100
           /\ SumWeights(w) = 100]_vars

\* C5: a loop that is Completed (its update brought FunctionN to 100) never
\* again attempts a trigger Get or Update.
C5_NoTriggerCallAfterCompleted ==
    \A l \in Loops :
        loop[l].state = "Completed" => loop[l].pc \notin {"trigget", "update"}

\* C6: at most one rollout loop runs per configuration identity.
C6_OneLoopPerConfig ==
    \A c \in CanaryConfigs :
        Cardinality({l \in Loops : Active(l) /\ loop[l].cfg.name = c.name}) <= 1

\* C7: a tick whose Update is refused with a conflict changes neither the
\* stored weights, nor the tracker, nor the loop's state, and drops the object
\* it read; every Update is made on an object read by TriggerGet in the same
\* tick, so a write that goes through adds the increment to the weights that
\* are stored at that moment.
C7_ConflictSkipsTick ==
    [][\A l \in Loops :
        /\ outcome' = [l |-> l, o |-> "UpdateConflict"]
            => /\ triggers' = triggers
               /\ Counter' = Counter
               /\ loop'[l].state = loop[l].state
               /\ loop'[l].quit = loop[l].quit
               /\ loop'[l].pc = "select"
               /\ loop'[l].t = NoTrigger
        /\ (loop'[l].pc = "update" /\ loop[l].pc # "update")
            => /\ loop[l].pc = "trigget"
               /\ loop'[l].t = triggers[TriggerOf(l)]
        /\ Wrote(l)
            => triggers'[TriggerOf(l)] =
                    IncrementWeights(triggers[TriggerOf(l)], loop[l].cfg)]_vars

\* C7 witness: a tick has just returned on a conflict, with requests recorded.
C7_ConflictSeen ==
    \E l \in Loops :
        /\ outcome = [l |-> l, o |-> "UpdateConflict"]
        /\ Counter[TriggerOf(l)] # NoCounter
        /\ Counter[TriggerOf(l)].TotalRequests > 0

\* C8: a tick below the threshold whose update succeeds leaves FunctionN at
\* min(100, old + WeightIncrement), FunctionNminus1 at
\* max(0, old - WeightIncrement), and the tracker at (0,0).
C8_IncrementCappedAndReset ==
    [][\A l \in Loops :
        Wrote(l)
        => LET c == loop[l].cfg
               old == triggers[c.Trigger]
               new == triggers'[c.Trigger]
           IN /\ Weight(new, c.FunctionN) =
                    Min(100, Weight(old, c.FunctionN) + c.WeightIncrement)
              /\ Weight(new, c.FunctionNminus1) =
                    Max(0, Weight(old, c.FunctionNminus1) - c.WeightIncrement)
              /\ Counter'[c.Trigger] = ZeroCounter]_vars

\* C9: a tick that finds no counter, or a total of 0, returns at once: the
\* trigger is neither read nor written, the tracker and the loop's state stay
\* as they are.
C9_NoDataTickDoesNothing ==
    [][\A l \in Loops :
        /\ ( /\ loop[l].pc = "check"
             /\ loop'[l].pc # "check"
             /\ (loop[l].requestCounter = "nil"
                    \/ Counter[TriggerOf(l)].TotalRequests = 0) )
            => outcome' = [l |-> l, o |-> "NoData"]
        /\ outcome' = [l |-> l, o |-> "NoData"]
            => /\ loop[l].pc = "check"
               /\ loop'[l].pc = "select"
               /\ loop'[l].t = NoTrigger
               /\ loop'[l].state = loop[l].state
               /\ loop'[l].quit = loop[l].quit
               /\ triggers' = triggers
               /\ Counter' = Counter]_vars

\* C9 witness: a tick has just returned for lack of data on a counter that
\* exists and holds a total of 0.
C9_NoDataSeen ==
    \E l \in Loops :
        /\ outcome = [l |-> l, o |-> "NoData"]
        /\ Counter[TriggerOf(l)] = ZeroCounter

\* C10: a tick that starts after its configuration's delete event was handled
\* observes the cancellation: it attempts no trigger Get or Update.
C10_DeletedLoopStops ==
    \A l \in Loops : loop[l].orphan => loop[l].pc \notin {"trigget", "update"}

\* C11: when a trigger Get or Update of a tick returns NotFound, the owning
\* loop terminates: the tick that saw NotFound leaves its quit channel closed
\* (the only signal that stops the ticker and ends the goroutine).
C11_NotFoundTerminatesLoop ==
    [][\A l \in Loops :
        (outcome'.l = l /\ outcome'.o \in {"GetNotFound", "UpdateNotFound"})
            => loop'[l].quit = "closed"]_vars

\* ------------------------------------------------------------ Updated events
\* the objects an Updated event carries: the stored configuration and the same
\* identity with changed parameters
Config1Updated == [Config1 EXCEPT !.WeightIncrement = 25, !.FailureThreshold = 40]
Config2Updated == [Config2 EXCEPT !.WeightIncrement = 10]
UpdatedConfigs == {Config1Updated, Config2Updated}

\* UpdateFunc (lines 80-85): the informer was built for *crd.CanaryConfig
\* objects (line 66), and oldObj.(*crd.HTTPTrigger) is a type assertion
\* without the ok result: it panics on every Updated event, in the informer's
\* goroutine, before updateCanaryConfig is reached
UpdateFunc(oldConfig, newConfig) ==
    /\ ~panicked
    /\ oldConfig.name \in store
    /\ newConfig.name = oldConfig.name
    /\ panicked' = TRUE
    /\ outcome' = [l |-> 0, o |-> "Updated"]
    /\ UNCHANGED <<Counter, recorded, mutex, triggers, store, loop>>

\* ------------------------------------------------------------ prometheusClient
\* what promApi.client.Query hands back as val: one of the model.Value types
\* the switch of lines 52-64 tells apart, or nil
ValueTypes == {"ValScalar", "ValVector", "ValOther"}

\* GetFunctionFailurePercentage (lines 37-65): the function has no result; a
\* query error is logged (lines 40-42) and the function goes on to
\* val.Type() (line 53), which panics when Query returned a nil val
GetFunctionFailurePercentage(err, val) ==
    /\ ~panicked
    /\ err \/ val # "nil"
    /\ panicked' = (val = "nil")
    /\ outcome' = [l |-> 0, o |-> "Query", err |-> err, returned |-> "nothing"]
    /\ UNCHANGED <<Counter, recorded, mutex, triggers, store, loop>>

\* the controller with its three event handlers, each Added event delivered
\* once, and the metrics query
NextEvents ==
    \/ \E tr \in Triggers, failedReq \in BOOLEAN : SetCall(tr, failedReq)
    \/ \E tr \in Triggers : ResetCall(tr)
    \/ \E c \in CanaryConfigs : AddOnce(c)
    \/ \E c \in CanaryConfigs : DeleteFunc(c)
    \/ \E c \in CanaryConfigs : DeleteFuncAgain(c)
    \/ \E c \in CanaryConfigs, n \in UpdatedConfigs : UpdateFunc(c, n)
    \/ \E err \in BOOLEAN, val \in ValueTypes \cup {"nil"} :
            GetFunctionFailurePercentage(err, val)
    \/ \E l \in Loops : SelectTick(l)
    \/ \E l \in Loops : SelectQuit(l)
    \/ \E l \in Loops : Check(l)
    \/ \E l \in Loops : Calc(l)
    \/ \E l \in Loops : TriggerGet(l)
    \/ \E l \in Loops : TriggerUpdate(l)

SpecEvents == Init /\ [][NextEvents]_vars

\* C12: once an Updated event that changes the parameters of a configuration
\* has been handled, exactly one loop runs for that identity and it runs with
\* the new parameters; no loop keeps ticking with the old ones.
C12_UpdateRestartsLoop ==
    [][outcome'.o = "Updated" =>
        /\ ~panicked'
        /\ \E n \in UpdatedConfigs :
            /\ Cardinality({l \in Loops : /\ loop'[l].pc \notin {"idle", "done"}
                                          /\ loop'[l].cfg = n}) = 1
            /\ \A l \in Loops :
                (loop'[l].pc \notin {"idle", "done"} /\ loop'[l].cfg.name = n.name)
                    => loop'[l].cfg = n]_vars

\* ------------------------------------------------------------ tracker races
\* the manager with set taken one write at a time: the rollout loops read the
\* fields of the counter get returned while a set may be between its writes
NextRace ==
    \/ \E tr \in Triggers, failedReq \in BOOLEAN : SetBegin(tr, failedReq)
    \/ \E tr \in Triggers : SetEnd(tr)
    \/ \E tr \in Triggers : ResetCall(tr)
    \/ \E c \in CanaryConfigs : AddOnce(c)
    \/ \E c \in CanaryConfigs : DeleteFunc(c)
    \/ \E l \in Loops : SelectTick(l)
    \/ \E l \in Loops : SelectQuit(l)
    \/ \E l \in Loops : Check(l)
    \/ \E l \in Loops : Calc(l)
    \/ \E l \in Loops : TriggerGet(l)
    \/ \E l \in Loops : TriggerUpdate(l)

SpecRace == Init /\ [][NextRace]_vars

\* C13: every read of a counter entry happens under the tracker's mutex: a
\* tick never reads the fields of a counter (the zero test, the failure
\* percentage) while a record is between its two writes, so the pair it
\* evaluates is one that existed when no record was in progress.
C13_ReadsUnderMutex ==
    [][\A l \in Loops :
        ( /\ loop[l].pc \in {"check", "calc"}
          /\ loop[l].requestCounter = "ptr"
          /\ loop'[l].pc # loop[l].pc )
            => mutex = "free"]_vars

\* C14: a failure of one configuration's tick (a failed Get or Update, a
\* completion; stated here for loops that never rolled back) is contained in
\* its own loop: when the tick returns while the loop of another configuration
\* is running, the process is alive and that loop is where it was.
C14_FailureStaysInItsLoop ==
    [][\A l \in Loops, m \in Loops :
        ( /\ outcome'.l = l
          /\ outcome'.o \notin {"NoData", "RollbackTriggered"}
          /\ loop[l].state # "RolledBack"
          /\ loop[m].cfg.name # loop[l].cfg.name
          /\ loop[m].pc \notin {"idle", "done"} )
            => /\ ~panicked'
               /\ loop'[m].pc = loop[m].pc
               /\ loop'[m].quit = loop[m].quit
               /\ loop'[m].state = loop[m].state
               /\ loop'[m].tickerStopped = loop[m].tickerStopped]_vars

\* C15: a metrics query that failed is reported to its caller as an error,
\* and the controller survives it: the outage is never passed on as data.
C15_QueryFailureReported ==
    [][(outcome'.o = "Query" /\ outcome'.err)
        => /\ ~panicked'
           /\ outcome'.returned = "error"]_vars

\* C16: the loop never overwrites a trigger blindly: when the stored weights
\* are no longer the ones the tick read with Get, its Update fails and the
\* stored weights stay as the other writer left them; weights are written only
\* over the object the increment was computed from.
C16_NoBlindOverwrite ==
    [][\A l \in Loops :
        (loop[l].pc = "update" /\ loop'[l].pc # "update")
            => /\ loop[l].t # triggers[TriggerOf(l)]
                    => /\ triggers' = triggers
                       /\ outcome'.l = l
                       /\ outcome'.o \in {"UpdateConflict", "UpdateNotFound", "UpdateError"}
               /\ triggers' # triggers
                    => /\ loop[l].t = triggers[TriggerOf(l)]
                       /\ triggers'[TriggerOf(l)] = IncrementWeights(loop[l].t, loop[l].cfg)]_vars

\* C16 witness: the Update of c1's tick was refused with a conflict and the
\* trigger holds weights that this tick's increment was not applied to (f2 is
\* below c1's WeightIncrement).
C16_OtherWriterKept ==
    \E l \in Loops :
        /\ outcome = [l |-> l, o |-> "UpdateConflict"]
        /\ loop[l].cfg = Config1
        /\ Weight(triggers[TriggerOf(l)], "f2") < Config1.WeightIncrement

C18_ResetOnlyOnSuccess ==
    [][/\ (loop' # loop /\ ~(\E l \in Loops : Wrote(l))) => Counter' = Counter
       /\ \A l \in Loops :
            /\ (outcome'.l = l /\ ~Wrote(l)) => Counter' = Counter
            /\ Wrote(l) => Counter' = [Counter EXCEPT ![TriggerOf(l)] = ZeroCounter]]_vars

\* C18 witness: a tick has just returned on a failed Get and the requests
\* recorded in its window, a failed one among them, are still in the tracker.
C18_FailedGetKeepsCounters ==
    \E l \in Loops :
        /\ outcome.l = l
        /\ outcome.o \in {"GetNotFound", "GetError"}
        /\ Counter[TriggerOf(l)] # NoCounter
        /\ Counter[TriggerOf(l)].FailedRequests > 0

\* C19: the quit channel of a loop is closed at most once: a tick that reaches
\* close(quit), after a rollback or at completion, finds the channel open.
C19_QuitClosedOnce ==
    [][\A l \in Loops :
        (outcome'.l = l /\ outcome'.o \in {"RollbackTriggered", "Completed"})
            => /\ loop[l].quit = "open"
               /\ ~panicked']_vars

\* ------------------------------------------------------------ a healthy rollout
\* one configuration rolled out under the best conditions: the trigger has a
\* tracker entry, every tick finds at least one request in its window, the
\* failure percentage stays below the threshold, and every Get and Update
\* succeeds (no other loop or writer touches the trigger)
InitLive ==
    /\ Counter = [tr \in Triggers |-> ZeroCounter]
    /\ recorded = [tr \in Triggers |-> ZeroCounter]
    /\ mutex = "free"
    /\ triggers \in [Triggers -> WeightStates]
    /\ store = {}
    /\ loop = [l \in Loops |-> IdleLoop]
    /\ outcome = NoOutcome
    /\ panicked = FALSE

\* the only Added event of the run
AddFirst(c) ==
    /\ \A l \in Loops : loop[l].pc = "idle"
    /\ AddFunc(c)

\* a request is recorded, and the window stays below the threshold
SetHealthy(tr, failedReq) ==
    /\ SetCall(tr, failedReq)
    /\ failedReq => \E l \in Loops : loop[l].pc # "idle"
    /\ \A l \in Loops :
        loop[l].pc # "idle"
            => calculatePercentageFailure(Counter'[tr]) < loop[l].cfg.FailureThreshold

\* the ticker fires on a window with at least one request
TickWithData(l) ==
    /\ loop[l].pc = "select"
    /\ Counter[loop[l].cfg.Trigger].TotalRequests >= 1
    /\ SelectTick(l)

\* HTTPTriggers.Get without error
GetOk(l) ==
    /\ TriggerGet(l)
    /\ loop'[l].pc = "update"

\* HTTPTriggers.Update without error
UpdateOk(l) ==
    /\ TriggerUpdate(l)
    /\ Wrote(l)

\* the steps of one addCanaryConfig goroutine inside a tick
TickStep(l) == Check(l) \/ Calc(l) \/ GetOk(l) \/ UpdateOk(l)

NextLive ==
    \/ \E tr \in Triggers, failedReq \in BOOLEAN : SetHealthy(tr, failedReq)
    \/ \E c \in CanaryConfigs : AddFirst(c)
    \/ \E l \in Loops : TickWithData(l)
    \/ \E l \in Loops : SelectQuit(l)
    \/ \E l \in Loops : Check(l)
    \/ \E l \in Loops : Calc(l)
    \/ \E l \in Loops : GetOk(l)
    \/ \E l \in Loops : UpdateOk(l)

\* requests keep arriving, the ticker keeps firing, a goroutine inside a tick
\* keeps running, and a select with quit closed is not starved of its quit
\* case
SpecLive ==
    /\ InitLive
    /\ [][NextLive]_vars
    /\ WF_vars(\E tr \in Triggers, failedReq \in BOOLEAN : SetHealthy(tr, failedReq))
    /\ \A l \in Loops :
        /\ WF_vars(TickWithData(l))
        /\ WF_vars(TickStep(l))
        /\ SF_vars(SelectQuit(l))

\* C20: under fair ticking, with a request in every window, the failure
\* percentage below the threshold and every Get and Update succeeding, a
\* started loop eventually is Completed with FunctionN at 100 and its ticker
\* stopped, whatever its starting weights.  Stated for the loops whose
\* WeightIncrement is above 0: with WeightIncrement 0 the weights never move
\* and FunctionN, below 100 at the start, cannot reach 100.
C20_EventuallyCompleted ==
    \A l \in Loops :
        (loop[l].pc # "idle" /\ loop[l].cfg.WeightIncrement > 0)
            ~> ( /\ loop[l].pc # "idle"
                 /\ loop[l].state = "Completed"
                 /\ loop[l].tickerStopped
                 /\ Weight(triggers[loop[l].cfg.Trigger], loop[l].cfg.FunctionN) = 100 )

\* C21: a tick whose Update succeeded changed only the entries of FunctionN
\* and FunctionNminus1 in the trigger's weight map: every other function keeps
\* its weight, the map has the keys it had, and the two entries together hold
\* what they held before.
C21_OnlyThePairChanges ==
    [][\A l \in Loops :
        Wrote(l) =>
            LET c == loop[l].cfg
                old == triggers[TriggerOf(l)]
                new == triggers'[TriggerOf(l)]
            IN /\ DOMAIN new = DOMAIN old
               /\ \A f \in DOMAIN old \ {c.FunctionN, c.FunctionNminus1} :
                    Weight(new, f) = old[f]
               /\ Weight(new, c.FunctionN) + Weight(new, c.FunctionNminus1)
                    = Weight(old, c.FunctionN) + Weight(old, c.FunctionNminus1)]_vars

====
